---- MODULE Spec2Model ----
(***************************************************************************)
(* A model of generate_app_icons.py: the size table ICON_SIZES, the        *)
(* renderer create_placeholder_icon(size, output_path) and the driver      *)
(* main().                                                                 *)
(*                                                                         *)
(* Two specifications are given.  GradSpec runs the gradient loop of       *)
(* create_placeholder_icon (lines 58-63) row by row on one canvas, with    *)
(* the floating-point arithmetic of the source worked out bit-exactly.     *)
(* Spec runs main(): the directory check, the loop over the table and      *)
(* every step of create_placeholder_icon for each entry, with the          *)
(* failures the imaging library and the file system can produce.           *)
(*                                                                         *)
(* Not modelled: what print writes to the console (lines 134, 143-169),    *)
(* the import check of lines 17-21, and the pixels of the handle, the tip   *)
(* and the glyph, of which only the geometry and the fact of being drawn    *)
(* are kept.                                                                *)
(***************************************************************************)
EXTENDS Integers, Sequences, FiniteSets, TLC

(***************************************************************************)
(* Python floats (IEEE-754 binary64).  Every float the gradient and the    *)
(* geometry compute is a multiple of 2^-75 below 2^15 in magnitude, so a    *)
(* magnitude is kept exactly as NumLimbs limbs of LimbBits bits, least      *)
(* significant first, in units of 2^-75: limbs 1..5 are the fraction and    *)
(* limb 6 the integer part.  An operation computes the exact result and     *)
(* then rounds it to MantBits significant bits, ties to even, as the        *)
(* hardware does.                                                           *)
(***************************************************************************)
MantBits == 53

LimbBits == 15

NumLimbs == 6

LimbBase == 2^LimbBits

Limbs == 1..NumLimbs

\* float(n) for an integer 0 <= n < LimbBase
BigFromInt(n) == [i \in Limbs |-> IF i = NumLimbs THEN n ELSE 0]

RECURSIVE MulFrom(_, _, _, _)
MulFrom(x, c, i, carry) ==
    IF i > NumLimbs THEN <<>>
    ELSE LET t == x[i] * c + carry
         IN  <<t % LimbBase>> \o MulFrom(x, c, i + 1, t \div LimbBase)

\* the exact product x * c, c a small natural number
BigMulSmall(x, c) == MulFrom(x, c, 1, 0)

RECURSIVE AddFrom(_, _, _, _)
AddFrom(x, y, i, carry) ==
    IF i > NumLimbs THEN <<>>
    ELSE LET t == x[i] + y[i] + carry
         IN  <<t % LimbBase>> \o AddFrom(x, y, i + 1, t \div LimbBase)

\* the exact sum x + y
BigAdd(x, y) == AddFrom(x, y, 1, 0)

RECURSIVE SubFrom(_, _, _, _)
SubFrom(x, y, i, borrow) ==
    IF i > NumLimbs THEN <<>>
    ELSE LET t == x[i] - y[i] - borrow
         IN  <<t % LimbBase>> \o SubFrom(x, y, i + 1, IF t < 0 THEN 1 ELSE 0)

\* the exact difference x - y, for x >= y
BigSub(x, y) == SubFrom(x, y, 1, 0)

RECURSIVE DivFrom(_, _, _, _)
DivFrom(x, d, i, rem) ==
    IF i = 0 THEN [q |-> <<>>, rem |-> rem]
    ELSE LET cur  == rem * LimbBase + x[i]
             rest == DivFrom(x, d, i - 1, cur % d)
         IN  [q |-> rest.q \o <<cur \div d>>, rem |-> rest.rem]

\* the quotient x / d cut at 2^-75, and what is left over
BigDivSmall(x, d) == DivFrom(x, d, NumLimbs, 0)

RECURSIVE SmallBitLen(_)
SmallBitLen(n) == IF n = 0 THEN 0 ELSE 1 + SmallBitLen(n \div 2)

RECURSIVE TopLimb(_, _)
TopLimb(x, i) == IF i = 0 \/ x[i] # 0 THEN i ELSE TopLimb(x, i - 1)

\* the number of significant bits of x (0 for zero)
BigBitLen(x) ==
    LET i == TopLimb(x, NumLimbs)
    IN  IF i = 0 THEN 0 ELSE LimbBits * (i - 1) + SmallBitLen(x[i])

\* bit j of x, bit 0 the least significant
BigBit(x, j) == (x[(j \div LimbBits) + 1] \div (2^(j % LimbBits))) % 2

\* whether every bit of x below bit j is zero
BigLowZero(x, j) ==
    /\ \A i \in 1..(j \div LimbBits) : x[i] = 0
    /\ \/ j % LimbBits = 0
       \/ x[(j \div LimbBits) + 1] % (2^(j % LimbBits)) = 0

\* x with the bits below bit k cleared
BigClearLow(x, k) ==
    [i \in Limbs |->
        IF i < (k \div LimbBits) + 1 THEN 0
        ELSE IF i = (k \div LimbBits) + 1
             THEN (x[i] \div (2^(k % LimbBits))) * (2^(k % LimbBits))
             ELSE x[i]]

BigPowTwo(k) ==
    [i \in Limbs |-> IF i = (k \div LimbBits) + 1 THEN 2^(k % LimbBits) ELSE 0]

\* round-to-nearest, ties-to-even, to MantBits significant bits; sticky says
\* that the exact value has non-zero bits below the last limb
RoundToDouble(x, sticky) ==
    LET k == BigBitLen(x) - MantBits
    IN  IF k <= 0 THEN x
        ELSE LET guard == BigBit(x, k - 1)
                 rest  == sticky \/ ~BigLowZero(x, k - 1)
                 odd   == BigBit(x, k) = 1
                 down  == BigClearLow(x, k)
             IN  IF guard = 1 /\ (rest \/ odd)
                 THEN BigAdd(down, BigPowTwo(k))
                 ELSE down

\* a float: a sign and a magnitude
Float(neg, mag) == [neg |-> neg, mag |-> mag]

\* a / b for integers 0 <= a, 0 < b (Python's true division is correctly rounded)
FloatDiv(a, b) ==
    LET d == BigDivSmall(BigFromInt(a), b)
    IN  Float(FALSE, RoundToDouble(d.q, d.rem # 0))

\* c * f for an integer c and a float f
FloatMulInt(c, f) ==
    LET a == IF c < 0 THEN -c ELSE c
    IN  Float((c < 0) # f.neg, RoundToDouble(BigMulSmall(f.mag, a), FALSE))

\* n + f for an integer n >= 0 and a float f >= -n
FloatAddInt(n, f) ==
    IF f.neg
    THEN Float(FALSE, RoundToDouble(BigSub(BigFromInt(n), f.mag), FALSE))
    ELSE Float(FALSE, RoundToDouble(BigAdd(BigFromInt(n), f.mag), FALSE))

\* int(f) for a float f >= 0: the fraction is cut off
IntOfFloat(f) == f.mag[NumLimbs]

(***************************************************************************)
(* The size table (lines 24-48): a dict, so its keys are distinct, and it  *)
(* is iterated in insertion order.                                         *)
(***************************************************************************)
Entry(name, size) == [name |-> name, size |-> size]

\* the table with one entry too many
ICON_SIZES_Extra ==
    << Entry("icon-20@2x.png", 40),
       Entry("icon-20@3x.png", 60),
       Entry("icon-29@2x.png", 58),
       Entry("icon-29@3x.png", 87),
       Entry("icon-40@2x.png", 80),
       Entry("icon-40@3x.png", 120),
       Entry("icon-60@2x.png", 120),
       Entry("icon-60@3x.png", 180),
       Entry("icon-20.png", 20),
       Entry("icon-20@2x-ipad.png", 40),
       Entry("icon-29.png", 29),
       Entry("icon-29@2x-ipad.png", 58),
       Entry("icon-40.png", 40),
       Entry("icon-40@2x-ipad.png", 80),
       Entry("icon-76.png", 76),
       Entry("icon-76@2x.png", 152),
       Entry("icon-83.5@2x.png", 167),
       Entry("icon-1024.png", 1024),
       Entry("icon-60.png", 60) >>

ICON_SIZES ==
    << Entry("icon-20@2x.png", 40),
       Entry("icon-20@3x.png", 60),
       Entry("icon-29@2x.png", 58),
       Entry("icon-29@3x.png", 87),
       Entry("icon-40@2x.png", 80),
       Entry("icon-40@3x.png", 120),
       Entry("icon-60@2x.png", 120),
       Entry("icon-60@3x.png", 180),
       Entry("icon-20.png", 20),
       Entry("icon-20@2x-ipad.png", 40),
       Entry("icon-29.png", 29),
       Entry("icon-29@2x-ipad.png", 58),
       Entry("icon-40.png", 40),
       Entry("icon-40@2x-ipad.png", 80),
       Entry("icon-76.png", 76),
       Entry("icon-76@2x.png", 152),
       Entry("icon-83.5@2x.png", 167),
       Entry("icon-1024.png", 1024) >>

NumEntries == Len(ICON_SIZES)

TableNames == {ICON_SIZES[i].name : i \in 1..NumEntries}

TableSizes == {ICON_SIZES[i].size : i \in 1..NumEntries}

(***************************************************************************)
(* The gradient (lines 57-63).                                             *)
(***************************************************************************)
StartColour == <<52, 152, 219>>

EndColour == <<147, 51, 234>>

White == <<255, 255, 255>>

\* the ratio of the row below
GradientRatio_NextRow(size, y) == FloatDiv(y + 1, size)

\* ratio = y / size
GradientRatio(size, y) == FloatDiv(y, size)

\* int(start + (end - start) * ratio) for one channel
GradientChannel(c, ratio) ==
    IntOfFloat(FloatAddInt(StartColour[c],
                           FloatMulInt(EndColour[c] - StartColour[c], ratio)))

\* the fill (r, g, b) of row y
GradientColour(size, y) ==
    LET ratio == GradientRatio(size, y)
    IN  <<GradientChannel(1, ratio), GradientChannel(2, ratio), GradientChannel(3, ratio)>>


\* the literal 0.5
FloatHalf == FloatDiv(1, 2)

(***************************************************************************)
(* The canvas.  A row of pixels is kept as one span x0..x1 of colour fill  *)
(* over a rest of the row of colour rest, which is all the gradient loop    *)
(* can produce: it draws one horizontal line per row.                       *)
(***************************************************************************)
Min(a, b) == IF a < b THEN a ELSE b

Max(a, b) == IF a > b THEN a ELSE b

Row(x0, x1, fill, rest) == [x0 |-> x0, x1 |-> x1, fill |-> fill, rest |-> rest]

PixelAt(row, x) == IF row.x0 <= x /\ x <= row.x1 THEN row.fill ELSE row.rest

\* Image.new('RGB', (size, size), color='white'): the rows of the new image
NewRows(size) == [yy \in 0..(size - 1) |-> Row(0, size - 1, White, White)]

\* draw.line([(xa, y), (xb, y)], fill) on a row of width w: the line is clipped
\* to the canvas
HLine(row, w, xa, xb, fill) ==
    Row(Max(0, Min(xa, xb)), Min(w - 1, Max(xa, xb)), fill, row.fill)

(***************************************************************************)
(* The geometry of the brush (lines 65-93).                                *)
(***************************************************************************)
\* center_x, center_y = size // 2, size // 2
Center(size) == size \div 2

\* size * 0.5 rounded half up instead of cut off
IconSize_Rounded(size) == (size + 1) \div 2

\* icon_size = int(size * 0.5)
IconSize(size) == IntOfFloat(FloatMulInt(size, FloatHalf))

\* brush_width = max(2, size // 20)
BrushWidth(size) == Max(2, size \div 20)

\* icon_size // 3, the offset of both handle end points from the centre
HandleOffset(icon_size) == icon_size \div 3

\* the radius without its division
BrushRadius_Whole(icon_size) == icon_size

\* brush_radius = icon_size // 4
BrushRadius(icon_size) == icon_size \div 4

\* the locals of lines 66-74
Handle(size) ==
    LET c == Center(size)
        s == IconSize(size)
    IN  [center_x       |-> c,
         center_y       |-> c,
         icon_size      |-> s,
         brush_width    |-> BrushWidth(size),
         handle_start_x |-> c - HandleOffset(s),
         handle_start_y |-> c - HandleOffset(s),
         handle_end_x   |-> c + HandleOffset(s),
         handle_end_y   |-> c + HandleOffset(s)]

\* the bounding box handed to draw.ellipse (lines 83-90)
TipBox(g) ==
    LET r == BrushRadius(g.icon_size)
    IN  [brush_radius |-> r,
         left   |-> g.handle_end_x - r,
         top    |-> g.handle_end_y - r,
         right  |-> g.handle_end_x + r,
         bottom |-> g.handle_end_y + r]

NoHandle == [center_x |-> 0, center_y |-> 0, icon_size |-> 0, brush_width |-> 0,
             handle_start_x |-> 0, handle_start_y |-> 0,
             handle_end_x |-> 0, handle_end_y |-> 0]

NoTip == [brush_radius |-> 0, left |-> 0, top |-> 0, right |-> 0, bottom |-> 0]

(***************************************************************************)
(* Paths and files.  A path is the sequence of its components below the    *)
(* script's directory.                                                     *)
(***************************************************************************)
\* the / of pathlib
Join(dir, name) == Append(dir, name)

\* script_dir / "PaintMyTown" / "Assets.xcassets" / "AppIcon.appiconset"
AssetsDir == Join(Join(Join(<<>>, "PaintMyTown"), "Assets.xcassets"), "AppIcon.appiconset")

\* every entry written to one and the same name
OutputPath_OneName(filename) == Join(AssetsDir, "icon.png")

\* output_path = assets_dir / filename
OutputPath(filename) == Join(AssetsDir, filename)

\* a PNG file of the given pixel dimensions
Png(w, h) == [kind |-> "png", w |-> w, h |-> h]

\* a file that was opened for writing and not written to its end
Partial == [kind |-> "partial", w |-> 0, h |-> 0]

\* a file that is no image of the generator's
Other == [kind |-> "other", w |-> 0, h |-> 0]

EmptyDir == [p \in {} |-> Other]

\* the listing with the file at path replaced or added
WriteFile(listing, path, file) ==
    [p \in DOMAIN listing \cup {path} |-> IF p = path THEN file ELSE listing[p]]

\* the listings the output directory may hold before the first run: nothing,
\* or the asset catalogue's Contents.json beside an icon left by an older tool
InitialListings ==
    { EmptyDir,
      WriteFile(WriteFile(EmptyDir, OutputPath("Contents.json"), Other),
                OutputPath("icon-20.png"), Png(512, 512)) }

\* what the attempts of lines 97-130 can come to: no candidate font exists,
\* ImageFont.truetype raises, draw.textbbox raises, the first draw.text (the
\* shadow) raises, the second draw.text (the glyph) raises, or all succeed
TextOutcomes == {"nofont", "loadfails", "bboxfails", "shadowfails", "glyphfails", "drawn"}

\* what is on the canvas after the text step
GlyphAfter(outcome) ==
    CASE outcome = "drawn"      -> "full"
      [] outcome = "glyphfails" -> "shadow"
      [] OTHER                  -> "none"

\* the number of times main() is run in a row on the same directory
MaxRuns == 2

VARIABLES
    dirExists,  \* whether assets_dir exists
    fs,         \* the files of assets_dir: path -> file
    run,        \* which run of main() this is
    pc,         \* where the run is
    idx,        \* the position of the loop of main() in ICON_SIZES
    img,        \* the canvas of the current call
    geom,       \* the locals of lines 66-74 of the current call
    tipbox,     \* the locals of lines 83-90 of the current call
    text,       \* the text step of the latest call: "skipped" or its outcome
    status,     \* what main() returned: -1 while it has not returned
    fault,      \* the step and entry at which an exception was raised in this run
    calls,      \* the calls of create_placeholder_icon of this run, in order
    written,    \* the paths img.save has written in this run, in order
    fs0,        \* the files of assets_dir when this run started
    prevStatus, \* what the run before this one returned (-1: none, or it raised)
    gsize,      \* GradSpec: the size of the canvas of the gradient loop
    y,          \* GradSpec: the next row of the gradient loop
    rows        \* GradSpec: the rows of the canvas

mainVars == <<dirExists, fs, run, pc, idx, img, geom, tipbox, text, status, fault,
              calls, written, fs0, prevStatus>>

gradVars == <<gsize, y, rows>>

vars == <<dirExists, fs, run, pc, idx, img, geom, tipbox, text, status, fault,
          calls, written, fs0, prevStatus, gsize, y, rows>>

(***************************************************************************)
(* The canvas of one call of create_placeholder_icon, as main() sees it:   *)
(* its dimensions and what has been drawn on it.                           *)
(***************************************************************************)
NoImg == [w |-> 0, h |-> 0, bg |-> "none", handle |-> FALSE, tip |-> FALSE, glyph |-> "none"]

\* a canvas that grows with a count kept from one run to the next
NewCanvas_Scaled(size) ==
    [w |-> size * run, h |-> size * run, bg |-> "white", handle |-> FALSE, tip |-> FALSE,
     glyph |-> "none"]

\* img = Image.new('RGB', (size, size), color='white')
NewCanvas(size) ==
    [w |-> size, h |-> size, bg |-> "white", handle |-> FALSE, tip |-> FALSE, glyph |-> "none"]

NoFault == [idx |-> 0, at |-> "none"]

\* the table walked from its end
CurrentEntry_Reversed == ICON_SIZES[NumEntries + 1 - idx]

\* the entry the loop of main() is at
CurrentEntry == ICON_SIZES[idx]

\* the arguments of the current call of create_placeholder_icon
Size == calls[Len(calls)].size

Path == calls[Len(calls)].path

\* the state of a process that is about to run main()
FreshRun ==
    /\ pc = "main"
    /\ idx = 0
    /\ img = NoImg
    /\ geom = NoHandle
    /\ tipbox = NoTip
    /\ text = "skipped"
    /\ status = -1
    /\ fault = NoFault
    /\ calls = <<>>
    /\ written = <<>>

GradIdle ==
    /\ gsize = 0
    /\ y = 0
    /\ rows = <<>>

Init ==
    /\ dirExists \in BOOLEAN
    /\ fs \in (IF dirExists THEN InitialListings ELSE {EmptyDir})
    /\ fs0 = fs
    /\ run = 1
    /\ prevStatus = -1
    /\ FreshRun
    /\ GradIdle

\* an exception that is caught in the loop, which then goes round again
Raise_Retried(step) ==
    /\ fault' = [idx |-> idx, at |-> step]
    /\ pc' = "loop"

\* an exception raised at a step of create_placeholder_icon: nothing in
\* create_placeholder_icon or main() catches it, so it leaves main() and ends the
\* process (lines 155 and 175)
Raise(step) ==
    /\ fault' = [idx |-> idx, at |-> step]
    /\ pc' = "crashed"

\* main() without its directory check
MainStart_NoCheck ==
    /\ pc = "main"
    /\ status' = status
    /\ pc' = "loop"
    /\ idx' = 1
    /\ UNCHANGED <<dirExists, fs, run, img, geom, tipbox, text, fault, calls, written,
                   fs0, prevStatus, gradVars>>

\* lines 139-150: the directory check
MainStart ==
    /\ pc = "main"
    /\ IF ~dirExists
       THEN /\ status' = 1
            /\ pc' = "returned"
            /\ idx' = idx
       ELSE /\ status' = status
            /\ pc' = "loop"
            /\ idx' = 1
    /\ UNCHANGED <<dirExists, fs, run, img, geom, tipbox, text, fault, calls, written,
                   fs0, prevStatus, gradVars>>

\* lines 153-155 and 157-171: the next entry of the table is handed to
\* create_placeholder_icon, or the table is exhausted and main() returns 0
LoopNext ==
    /\ pc = "loop"
    /\ IF idx <= NumEntries
       THEN /\ calls' = Append(calls, [size |-> CurrentEntry.size,
                                       path |-> OutputPath(CurrentEntry.name)])
            /\ pc' = "new"
            /\ status' = status
       ELSE /\ calls' = calls
            /\ pc' = "returned"
            /\ status' = 0
    /\ UNCHANGED <<dirExists, fs, run, idx, img, geom, tipbox, text, fault, written,
                   fs0, prevStatus, gradVars>>

\* lines 54-55: Image.new and ImageDraw.Draw
NewImage ==
    /\ pc = "new"
    /\ \/ /\ img' = NewCanvas(Size)
          /\ pc' = "gradient"
          /\ fault' = fault
       \/ /\ Raise("new")
          /\ img' = img
    /\ text' = "skipped"
    /\ UNCHANGED <<dirExists, fs, run, idx, geom, tipbox, status, calls, written, fs0,
                   prevStatus, gradVars>>

\* lines 58-63: the gradient loop (GradSpec runs it row by row)
DrawGradient ==
    /\ pc = "gradient"
    /\ \/ /\ img' = [img EXCEPT !.bg = "gradient"]
          /\ pc' = "handle"
          /\ fault' = fault
       \/ /\ Raise("gradient")
          /\ img' = img
    /\ UNCHANGED <<dirExists, fs, run, idx, geom, tipbox, text, status, calls, written,
                   fs0, prevStatus, gradVars>>

\* lines 66-80: the geometry and the handle
DrawHandle ==
    /\ pc = "handle"
    /\ geom' = Handle(Size)
    /\ \/ /\ img' = [img EXCEPT !.handle = TRUE]
          /\ pc' = "tip"
          /\ fault' = fault
       \/ /\ Raise("handle")
          /\ img' = img
    /\ UNCHANGED <<dirExists, fs, run, idx, tipbox, text, status, calls, written,
                   fs0, prevStatus, gradVars>>

\* lines 83-93: the tip
DrawTip ==
    /\ pc = "tip"
    /\ tipbox' = TipBox(geom)
    /\ \/ /\ img' = [img EXCEPT !.tip = TRUE]
          /\ pc' = "text"
          /\ fault' = fault
       \/ /\ Raise("tip")
          /\ img' = img
    /\ UNCHANGED <<dirExists, fs, run, idx, geom, text, status, calls, written,
                   fs0, prevStatus, gradVars>>

\* the text step without its except clauses: what is raised leaves the call
DrawText_Propagates ==
    /\ pc = "text"
    /\ IF Size >= 120
       THEN \E outcome \in TextOutcomes :
                /\ text' = outcome
                /\ img' = [img EXCEPT !.glyph = GlyphAfter(outcome)]
                /\ IF outcome \in {"loadfails", "bboxfails", "shadowfails", "glyphfails"}
                   THEN Raise("text")
                   ELSE pc' = "save" /\ fault' = fault
       ELSE /\ text' = "skipped"
            /\ img' = img
            /\ pc' = "save"
            /\ fault' = fault
    /\ UNCHANGED <<dirExists, fs, run, idx, geom, tipbox, status, calls, written,
                   fs0, prevStatus, gradVars>>

\* lines 96-130: the glyph, for size >= 120 only; whatever is raised inside is
\* caught by the bare except clauses
DrawText ==
    /\ pc = "text"
    /\ IF Size >= 120
       THEN \E outcome \in TextOutcomes :
                /\ text' = outcome
                /\ img' = [img EXCEPT !.glyph = GlyphAfter(outcome)]
       ELSE /\ text' = "skipped"
            /\ img' = img
    /\ pc' = "save"
    /\ UNCHANGED <<dirExists, fs, run, idx, geom, tipbox, status, fault, calls, written,
                   fs0, prevStatus, gradVars>>

\* lines 133-134: img.save writes the PNG and the call returns to the loop, its
\* canvas and locals gone; a save that fails leaves the path as it was or,
\* having opened it, cut short
SaveIcon ==
    /\ pc = "save"
    /\ \/ /\ dirExists
          /\ fs' = WriteFile(fs, Path, Png(img.w, img.h))
          /\ written' = Append(written, Path)
          /\ idx' = idx + 1
          /\ pc' = "loop"
          /\ fault' = fault
          /\ img' = NoImg
          /\ geom' = NoHandle
          /\ tipbox' = NoTip
       \/ /\ Raise("save")
          /\ fs' \in {fs} \cup (IF dirExists THEN {WriteFile(fs, Path, Partial)} ELSE {})
          /\ UNCHANGED <<written, idx, img, geom, tipbox>>
    /\ UNCHANGED <<dirExists, run, text, status, calls, fs0, prevStatus, gradVars>>

\* the program is started again on the same directory
Rerun ==
    /\ pc \in {"returned", "crashed"}
    /\ run < MaxRuns
    /\ run' = run + 1
    /\ prevStatus' = status
    /\ fs0' = fs
    /\ pc' = "main"
    /\ idx' = 0
    /\ img' = NoImg
    /\ geom' = NoHandle
    /\ tipbox' = NoTip
    /\ text' = "skipped"
    /\ status' = -1
    /\ fault' = NoFault
    /\ calls' = <<>>
    /\ written' = <<>>
    /\ UNCHANGED <<dirExists, fs, gradVars>>

Next ==
    \/ MainStart
    \/ LoopNext
    \/ NewImage
    \/ DrawGradient
    \/ DrawHandle
    \/ DrawTip
    \/ DrawText
    \/ SaveIcon
    \/ Rerun

Spec == Init /\ [][Next]_vars

(***************************************************************************)
(* The gradient loop alone, on a canvas of each size of the table.         *)
(***************************************************************************)
GradInit ==
    /\ gsize \in TableSizes
    /\ y = 0
    /\ rows = NewRows(gsize)
    /\ dirExists = TRUE
    /\ fs = EmptyDir
    /\ fs0 = fs
    /\ run = 1
    /\ prevStatus = -1
    /\ FreshRun

\* one pass of the loop body, lines 59-63
GradientRow ==
    /\ y < gsize
    /\ rows' = [rows EXCEPT ![y] = HLine(rows[y], gsize, 0, gsize, GradientColour(gsize, y))]
    /\ y' = y + 1
    /\ UNCHANGED <<gsize, mainVars>>

GradNext == GradientRow

GradSpec == GradInit /\ [][GradNext]_vars

(***************************************************************************)
(* The properties.                                                         *)
(***************************************************************************)
Range(seq) == {seq[i] : i \in 1..Len(seq)}

Abs(n) == IF n < 0 THEN -n ELSE n

CeilDiv(a, b) == (a + b - 1) \div b

TablePaths == {OutputPath(n) : n \in TableNames}

InCall == pc \in {"new", "gradient", "handle", "tip", "text", "save"}

ReturnedZero == pc = "returned" /\ status = 0

\* C1: when the output directory does not exist, main() returns 1 and nothing
\* is generated: the run is never anywhere but at the start of main() or
\* returned, it returns 1, create_placeholder_icon is never called, no canvas
\* exists and no file is written.
C1_MissingDirectory ==
    ~dirExists =>
        /\ pc \in {"main", "returned"}
        /\ pc = "returned" => status = 1
        /\ calls = <<>>
        /\ written = <<>>
        /\ img = NoImg
        /\ fs = fs0
        /\ DOMAIN fs = {}

C1_Witness == ~dirExists /\ pc = "returned" /\ status = 1 /\ run = 1

\* C2: when the directory exists and was empty as the run started and main()
\* has returned 0, the files of the directory are exactly the 18 names of the
\* table, and each holds a PNG of size x size pixels for its size in the table.
C2_ExactlyTheTable ==
    (ReturnedZero /\ fs0 = EmptyDir) =>
        /\ DOMAIN fs = TablePaths
        /\ Cardinality(DOMAIN fs) = 18
        /\ Cardinality(TableNames) = NumEntries
        /\ \A i \in 1..NumEntries :
               fs[OutputPath(ICON_SIZES[i].name)] = Png(ICON_SIZES[i].size, ICON_SIZES[i].size)

C2_Witness == ReturnedZero /\ fs0 = EmptyDir /\ dirExists /\ Cardinality(DOMAIN fs) = 18

\* what a successful run wrote, n files in all: n distinct paths, each the path
\* of an entry of the table and holding a PNG of that entry's size
WroteTable(n) ==
    /\ Len(written) = n
    /\ Cardinality(Range(written)) = n
    /\ \A p \in Range(written) :
           \E i \in 1..NumEntries :
               /\ p = OutputPath(ICON_SIZES[i].name)
               /\ fs[p] = Png(ICON_SIZES[i].size, ICON_SIZES[i].size)

\* C3, as stated: a run that returned 0 has written 19 PNG files, each named and
\* sized per the table.
C3_NineteenFiles == ReturnedZero => WroteTable(19)

\* C3, amended: a run that returned 0 has written 18 PNG files, each named and
\* sized per the table.
C3_EighteenFiles == ReturnedZero => WroteTable(18)

C3_Witness == ReturnedZero /\ Len(written) = 18 /\ written[18] = OutputPath("icon-1024.png")

\* the rows of the gradient a state is checked on: every row once the loop has
\* ended, the row just drawn before that
CheckedRows == IF y = gsize THEN 0..(gsize - 1) ELSE {yy \in {y - 1} : yy >= 0}

\* C4: the gradient gives every pixel of a row the same colour, row 0 the
\* colour (52,152,219), changes each channel monotonically in y (red and blue
\* never decrease, green never increases), never passes (147,51,234) on any
\* channel, and leaves the last row within ceil(|end - start| / size) of
\* (147,51,234) on each channel.
C4_Gradient ==
    \A yy \in CheckedRows :
        LET colour == PixelAt(rows[yy], 0)
        IN  /\ \A x \in 0..(gsize - 1) : PixelAt(rows[yy], x) = colour
            /\ yy = 0 => colour = StartColour
            /\ yy > 0 =>
                   LET above == PixelAt(rows[yy - 1], 0)
                   IN  /\ colour[1] >= above[1]
                       /\ colour[2] <= above[2]
                       /\ colour[3] >= above[3]
            /\ colour[1] <= EndColour[1]
            /\ colour[2] >= EndColour[2]
            /\ colour[3] <= EndColour[3]
            /\ yy = gsize - 1 =>
                   \A c \in 1..3 :
                       Abs(colour[c] - EndColour[c])
                           <= CeilDiv(Abs(EndColour[c] - StartColour[c]), gsize)

C4_Witness ==
    /\ gsize = 1024
    /\ y = gsize
    /\ PixelAt(rows[0], 0) = StartColour
    /\ PixelAt(rows[gsize - 1], gsize - 1) # White

FailedTextOutcomes == TextOutcomes \ {"drawn"}

\* C5: for size < 120 the text step is not attempted and no glyph is drawn; for
\* size >= 120 it is attempted, and however it ends (no font, a font that does
\* not load, text that does not draw) nothing is raised: the call goes on to
\* save, no exception is ever raised at the text step, and once the save is done
\* the loop is at the next entry with the file of this one written.
C5_GlyphBestEffort ==
    /\ [](/\ fault.at # "text"
          /\ pc = "save" =>
                 /\ Size < 120 => (text = "skipped" /\ img.glyph = "none")
                 /\ Size >= 120 => text \in TextOutcomes
                 /\ text \in FailedTextOutcomes => img.glyph # "full"
          /\ (pc = "loop" /\ text \in TextOutcomes) =>
                 /\ ICON_SIZES[idx - 1].size >= 120
                 /\ written[Len(written)] = OutputPath(ICON_SIZES[idx - 1].name)
                 /\ fs[OutputPath(ICON_SIZES[idx - 1].name)]
                        = Png(ICON_SIZES[idx - 1].size, ICON_SIZES[idx - 1].size))
    /\ [][pc = "text" => (pc' = "save" /\ fault' = fault /\ idx' = idx /\ calls' = calls)]_vars

C5_Witness ==
    /\ pc = "new"
    /\ text = "loadfails"
    /\ idx = 7
    /\ Len(written) = 6
    /\ fs[OutputPath("icon-40@3x.png")] = Png(120, 120)

\* C6: a failure at a step of entry k (canvas creation, gradient, handle, tip or
\* save) is not caught or retried: the run is over without main() having
\* returned, entry k was called once and no entry after it, the entries before
\* k are the only ones written and their files hold what was written, the files
\* of the entries after k are as they were when the run started, and nothing
\* follows in that run.
C6_FailFast ==
    /\ [](fault.at # "none" =>
              /\ pc = "crashed"
              /\ status = -1
              /\ fault.at \in {"new", "gradient", "handle", "tip", "save"}
              /\ fault.idx = idx
              /\ Len(calls) = idx
              /\ Len(written) = idx - 1
              /\ \A j \in 1..(idx - 1) :
                     /\ written[j] = OutputPath(ICON_SIZES[j].name)
                     /\ fs[written[j]] = Png(ICON_SIZES[j].size, ICON_SIZES[j].size)
              /\ \A j \in (idx + 1)..NumEntries :
                     LET p == OutputPath(ICON_SIZES[j].name)
                     IN  /\ p \in DOMAIN fs <=> p \in DOMAIN fs0
                         /\ p \in DOMAIN fs => fs[p] = fs0[p])
    /\ [][pc = "crashed" => (run' = run + 1 /\ fs' = fs)]_vars

C6_Witness ==
    /\ pc = "crashed"
    /\ fault = [idx |-> 7, at |-> "save"]
    /\ Len(written) = 6
    /\ OutputPath("icon-60@2x.png") \in DOMAIN fs
    /\ fs[OutputPath("icon-60@2x.png")] = Partial

\* the paths of the directory that are names of the table
IconPaths(listing) == DOMAIN listing \cap TablePaths

\* C7: when a run that returned 0 is followed by another run that returns 0,
\* the directory holds after the second the same file names as after the
\* first, the 18 of the table among them, each with the same width and height.
C7_Idempotent ==
    (run >= 2 /\ prevStatus = 0 /\ ReturnedZero) =>
        /\ DOMAIN fs = DOMAIN fs0
        /\ \A p \in DOMAIN fs : fs[p].kind = fs0[p].kind /\ fs[p].w = fs0[p].w /\ fs[p].h = fs0[p].h
        /\ IconPaths(fs) = TablePaths
        /\ Cardinality(IconPaths(fs)) = 18
        /\ img = NoImg

C7_Witness ==
    /\ run = 2
    /\ prevStatus = 0
    /\ ReturnedZero
    /\ Len(written) = NumEntries
    /\ OutputPath("Contents.json") \in DOMAIN fs

\* C8: create_placeholder_icon is called once per entry of the table, in the
\* order of the table, with the size of the entry and the path
\* assets_dir / filename; while the call of entry i+1 is under way the files of
\* entries 1..i are written, with their sizes; and main() has returned 0 only
\* when every entry has been called and written.
C8_OrderedOncePerEntry ==
    /\ Len(calls) <= NumEntries
    /\ \A i \in 1..Len(calls) :
           calls[i] = [size |-> ICON_SIZES[i].size, path |-> Join(AssetsDir, ICON_SIZES[i].name)]
    /\ InCall => (Len(calls) = idx /\ Len(written) = idx - 1)
    /\ pc = "loop" => (Len(calls) = idx - 1 /\ Len(written) = idx - 1)
    /\ \A j \in 1..Len(written) :
           /\ j <= Len(calls)
           /\ written[j] = calls[j].path
           /\ fs[written[j]] = Png(calls[j].size, calls[j].size)
    /\ ReturnedZero => (Len(calls) = NumEntries /\ Len(written) = NumEntries)
    /\ (dirExists /\ pc = "returned") => status = 0

C8_Witness ==
    /\ pc = "gradient"
    /\ idx = 5
    /\ Len(calls) = 5
    /\ Len(written) = 4
    /\ calls[5] = [size |-> 80, path |-> OutputPath("icon-40@2x.png")]

\* the locals of lines 66-74 have been computed in the current call
GeomValid == geom # NoHandle

\* the locals of lines 83-90 have been computed in the current call
TipValid == tipbox # NoTip

\* size * 0.5 rounded to the nearest integer, a tie going up
RoundHalfUp(size) == (size + 1) \div 2

\* size * 0.5 rounded to the nearest integer, a tie going to the even one
RoundHalfEven(size) ==
    IF size % 2 = 0 THEN size \div 2
    ELSE IF (size \div 2) % 2 = 0 THEN size \div 2 ELSE (size \div 2) + 1

\* C9, as stated: center is size / 2 by integer division on both axes and
\* iconSize is round(size * 0.5), whichever of the two usual ways round() takes
\* a tie.
C9_IconSizeRounded ==
    GeomValid =>
        /\ geom.center_x = Size \div 2
        /\ geom.center_y = Size \div 2
        /\ geom.icon_size \in {RoundHalfUp(Size), RoundHalfEven(Size)}

\* C9, amended: center is size / 2 by integer division on both axes and
\* iconSize is size * 0.5 with its fraction cut off: the largest integer not
\* above size / 2, which is center.
C9_IconSizeTruncated ==
    GeomValid =>
        /\ 2 * geom.center_x <= Size
        /\ Size < 2 * geom.center_x + 2
        /\ geom.center_y = geom.center_x
        /\ 2 * geom.icon_size <= Size
        /\ Size < 2 * geom.icon_size + 2

C9_Witness == pc = "tip" /\ Size = 87 /\ geom.icon_size = 43 /\ geom.center_x = 43

\* C10: the brush stays inside the canvas: both ends of the handle and the
\* whole bounding box of the tip have their coordinates in 0..size-1, the
\* handle starts strictly up and left of its end, the radius of the tip is at
\* least 1 and the width of the stroke is max(2, size / 20), at least 2.
C10_BrushInsideCanvas ==
    /\ GeomValid =>
           /\ \A v \in {geom.handle_start_x, geom.handle_start_y,
                        geom.handle_end_x, geom.handle_end_y} : v \in 0..(Size - 1)
           /\ geom.handle_start_x = geom.center_x - geom.icon_size \div 3
           /\ geom.handle_end_x = geom.center_x + geom.icon_size \div 3
           /\ geom.handle_start_y = geom.center_y - geom.icon_size \div 3
           /\ geom.handle_end_y = geom.center_y + geom.icon_size \div 3
           /\ geom.handle_start_x < geom.handle_end_x
           /\ geom.handle_start_y < geom.handle_end_y
           /\ geom.brush_width >= 2
           /\ geom.brush_width >= Size \div 20
           /\ geom.brush_width \in {2, Size \div 20}
    /\ TipValid =>
           /\ \A v \in {tipbox.left, tipbox.top, tipbox.right, tipbox.bottom} :
                  v \in 0..(Size - 1)
           /\ tipbox.brush_radius >= 1
           /\ tipbox.left = geom.handle_end_x - tipbox.brush_radius
           /\ tipbox.right = geom.handle_end_x + tipbox.brush_radius
           /\ tipbox.top = geom.handle_end_y - tipbox.brush_radius
           /\ tipbox.bottom = geom.handle_end_y + tipbox.brush_radius

C10_Witness ==
    /\ pc = "text"
    /\ Size = 20
    /\ tipbox.brush_radius = 2
    /\ tipbox.right = 15
    /\ geom.brush_width = 2

====
